---- MODULE Spec2Model ----
(***************************************************************************)
(* Pacific Notions downloader.  Three revisions of the program live in the *)
(* repository: src/main.go (probes in goroutines that report through the   *)
(* unbuffered channel validURLs and a WaitGroup) and src/unnamed/part_000, *)
(* part_001 (sequential probing, downloads reporting through the buffered  *)
(* channel errors).  The variable variant selects the revision a behaviour *)
(* runs; part_001 has the orchestration of part_000.                       *)
(***************************************************************************)
EXTENDS Bags, FiniteSets, Integers, Sequences, TLC

VARIABLES
    variant,            \* which revision runs: "main.go" or "part_000"
    usePreviousMonth,   \* flag --previous-month
    previousMonths,     \* flag -p
    curMonth, curYear,  \* time.Now().Month(), time.Now().Year()
    today,              \* time.Now().Day()
    month, year,        \* the target period
    sundays,            \* candidate dates, []time.Time
    formattedSundays,   \* the same, formatted YYYYMMDD
    resp,               \* the archive: date string -> suffix -> HEAD outcome
    dir,                \* the output directory: file name -> content
    dir0,               \* the output directory when the current run started
    pc,                 \* position of main
    idx,                \* loop index of main
    prober,             \* main.go: state of the goroutine of each date
    link,               \* per date: the URL returned by the probe
    probed,             \* per date: the suffixes probed, in order
    wg,                 \* sync.WaitGroup counter
    validURLs,          \* main.go: channel buffer; part_000: the slice
    closed,             \* main.go: validURLs has been closed
    task,               \* per date: state of its downloadFile task
    body,               \* per date: what http.Get returned to its task
    err,                \* per date: the error of its downloadFile
    errors,             \* part_000: buffer of the channel errors
    errorsCap,          \* part_000: capacity of the channel errors
    out,                \* bag of lines printed to standard output
    calls,              \* per date: number of downloadFile invocations in this run
    created,            \* file names os.Create was called on in this run
    inventoried,        \* dates whose URL went through the inventory check
    prev,               \* how the previous run of the program ended
    prevErr             \* the URLs whose http.Get failed in the previous run

dateVars == <<usePreviousMonth, previousMonths, curMonth, curYear, today,
              month, year, sundays, formattedSundays>>
probeVars == <<resp, prober, link, probed>>
runVars == <<dir, dir0, idx, wg, validURLs, closed, task, body, err, errors,
             errorsCap, out, calls, created, inventoried, prev, prevErr>>
vars == <<variant, pc, dateVars, probeVars, runVars>>

----------------------------------------------------------------------------
(* Bounds of the model *)

\* today is one of the days 2, 9, 16, ... of the month: 2 + 7*k, k <= MaxWeeks
MaxWeeks == 2
\* largest value of the flag -p
MaxBack == 14
\* the years "now" is drawn from in the date specification
FirstYear == 2023
LastYear == 2025

----------------------------------------------------------------------------
(* Calendar: time.Date, Time.AddDate, Time.Weekday, Time.Format *)

IsLeap(y) == (y % 4 = 0 /\ y % 100 # 0) \/ y % 400 = 0

DaysIn(m, y) ==
    IF m = 2 THEN (IF IsLeap(y) THEN 29 ELSE 28)
    ELSE IF m \in {4, 6, 9, 11} THEN 30 ELSE 31

\* days from 0001-01-01 (a Monday) to the first day of year y
DaysBeforeYear(y) ==
    LET n == y - 1 IN 365 * n + (n \div 4) - (n \div 100) + (n \div 400)

RECURSIVE DaysBeforeMonth(_, _)
DaysBeforeMonth(m, y) ==
    IF m = 1 THEN 0 ELSE DaysBeforeMonth(m - 1, y) + DaysIn(m - 1, y)

\* Time.Weekday: 0 is Sunday
Weekday(t) ==
    (DaysBeforeYear(t.year) + DaysBeforeMonth(t.month, t.year) + t.day) % 7

\* time.Date(year, month, day, ...): a month outside 1..12 is normalized into
\* the neighbouring years; day is within the month wherever the program calls it
Date(y, m, d) ==
    [year |-> y + ((m - 1) \div 12), month |-> ((m - 1) % 12) + 1, day |-> d]

\* day.AddDate(0, 1, -1) of the first day of a month: the last day of the month
LastDayOf(day) == Date(day.year, day.month, DaysIn(day.month, day.year))

\* day.AddDate(0, 0, 1)
NextDay(t) ==
    IF t.day < DaysIn(t.month, t.year) THEN Date(t.year, t.month, t.day + 1)
    ELSE IF t.month < 12 THEN Date(t.year, t.month + 1, 1)
    ELSE Date(t.year + 1, 1, 1)

Pad2(n) == IF n < 10 THEN "0" \o ToString(n) ELSE ToString(n)

Pad4(n) == IF n < 1000 THEN "0" \o (IF n < 100 THEN "0" \o Pad2(n) ELSE ToString(n))
           ELSE ToString(n)

\* the layout "200601": year and month only
formatSunday_monthOnly(t) == Pad4(t.year) \o Pad2(t.month)

formatSunday(t) == Pad4(t.year) \o Pad2(t.month) \o Pad2(t.day)

RECURSIVE formatDays(_)
formatDays(days) ==
    IF days = <<>> THEN <<>>
    ELSE <<formatSunday(Head(days))>> \o formatDays(Tail(days))

----------------------------------------------------------------------------
(* Date Calculator *)

\* adjustForPast wrapping only when the reduced month is < 0
adjustForPast_strict(upm, pm, m, y) ==
    IF ~upm /\ pm = 0 THEN [month |-> m, year |-> y]
    ELSE LET monthsDelta == IF upm THEN 1 ELSE pm
             reduced == m - monthsDelta
         IN  IF reduced < 0 THEN [month |-> 12, year |-> y - 1]
             ELSE [month |-> reduced, year |-> y]

adjustForPast(upm, pm, m, y) ==
    IF ~upm /\ pm = 0 THEN [month |-> m, year |-> y]
    ELSE LET monthsDelta == IF upm THEN 1 ELSE pm
             reduced == m - monthsDelta
         IN  IF reduced <= 0 THEN [month |-> 12, year |-> y - 1]
             ELSE [month |-> reduced, year |-> y]

\* part_000, lines 24-33: only --previous-month exists
previousMonthOf(upm, m, y) ==
    IF upm THEN (IF m - 1 = 0 THEN [month |-> 12, year |-> y - 1]
                 ELSE [month |-> m - 1, year |-> y])
    ELSE [month |-> m, year |-> y]

\* the loop of findSundays leaving at the last day before looking at it
RECURSIVE sundaysFrom_breakFirst(_, _)
sundaysFrom_breakFirst(day, lastDay) ==
    IF day = lastDay THEN <<>>
    ELSE (IF Weekday(day) = 0 THEN <<day>> ELSE <<>>)
         \o sundaysFrom_breakFirst(NextDay(day), lastDay)

RECURSIVE sundaysFrom(_, _)
sundaysFrom(day, lastDay) ==
    LET here == IF Weekday(day) = 0 THEN <<day>> ELSE <<>>
    IN  IF day = lastDay THEN here
        ELSE here \o sundaysFrom(NextDay(day), lastDay)

findSundays(m, y) ==
    LET day == Date(y, m, 1) IN sundaysFrom(day, LastDayOf(day))

\* filterSundaysUntilToday keeping only the Sundays before today
RECURSIVE filterSundaysUntilToday_strict(_, _)
filterSundaysUntilToday_strict(ss, td) ==
    IF ss = <<>> THEN <<>>
    ELSE (IF Head(ss).day < td THEN <<Head(ss)>> ELSE <<>>)
         \o filterSundaysUntilToday_strict(Tail(ss), td)

RECURSIVE filterSundaysUntilToday(_, _)
filterSundaysUntilToday(ss, td) ==
    IF ss = <<>> THEN <<>>
    ELSE (IF Head(ss).day <= td THEN <<Head(ss)>> ELSE <<>>)
         \o filterSundaysUntilToday(Tail(ss), td)

----------------------------------------------------------------------------
(* URL Prober *)

NoURL == <<>>

\* the number the search starts from: 12 in main.go, 9 in part_000
StartNumber(v) == IF v = "main.go" THEN 12 ELSE 9

\* a URL is the sequence of its "/"-separated segments
makeURLForDate(v, date, mysteriousNumber) ==
    <<"https:", "", "kexp-archive.streamguys1.com", "content", "kexp",
      IF v = "main.go"
      THEN date \o "0550" \o Pad2(mysteriousNumber) \o "-33-1962-pacific-notions.mp3"
      ELSE date \o "06000" \o ToString(mysteriousNumber) \o "-33-515-pacific-notions.mp3">>

\* path.Base
Base(url) == url[Len(url)]

\* the search that accepts any response received without an error
RECURSIVE tryFindURL_anyStatus(_, _, _, _)
tryFindURL_anyStatus(v, responder, date, mysteriousNumber) ==
    IF mysteriousNumber < 0 THEN [link |-> NoURL, probes |-> <<>>]
    ELSE LET urlCandidate == makeURLForDate(v, date, mysteriousNumber)
             head == responder[mysteriousNumber]
         IN  IF head # "err"
             THEN [link |-> urlCandidate, probes |-> <<mysteriousNumber>>]
             ELSE LET rest == tryFindURL_anyStatus(v, responder, date, mysteriousNumber - 1)
                  IN  [link |-> rest.link,
                       probes |-> <<mysteriousNumber>> \o rest.probes]

\* the search that stops at mysteriousNumber <= 0 and never probes suffix 0
RECURSIVE tryFindURL_skipZero(_, _, _, _)
tryFindURL_skipZero(v, responder, date, mysteriousNumber) ==
    IF mysteriousNumber <= 0 THEN [link |-> NoURL, probes |-> <<>>]
    ELSE LET urlCandidate == makeURLForDate(v, date, mysteriousNumber)
             head == responder[mysteriousNumber]
         IN  IF head = "200"
             THEN [link |-> urlCandidate, probes |-> <<mysteriousNumber>>]
             ELSE LET rest == tryFindURL_skipZero(v, responder, date, mysteriousNumber - 1)
                  IN  [link |-> rest.link,
                       probes |-> <<mysteriousNumber>> \o rest.probes]

\* result: the URL found ("" when none) and the suffixes probed, in order
RECURSIVE tryFindURLForDateMysteriosNumber(_, _, _, _)
tryFindURLForDateMysteriosNumber(v, responder, date, mysteriousNumber) ==
    IF mysteriousNumber < 0 THEN [link |-> NoURL, probes |-> <<>>]
    ELSE LET urlCandidate == makeURLForDate(v, date, mysteriousNumber)
             head == responder[mysteriousNumber]
         IN  IF head = "200"
             THEN [link |-> urlCandidate, probes |-> <<mysteriousNumber>>]
             ELSE LET rest == tryFindURLForDateMysteriosNumber(
                                  v, responder, date, mysteriousNumber - 1)
                  IN  [link |-> rest.link,
                       probes |-> <<mysteriousNumber>> \o rest.probes]

----------------------------------------------------------------------------
(* Local Inventory Filter *)

isDownloadMissing(outputDir, url) == Base(url) \notin DOMAIN outputDir

\* filterMissingDownloads that keeps every URL
filterMissingDownloads_keepAll(outputDir, urls) == urls

\* filterMissingDownloads with the test of os.IsNotExist inverted
RECURSIVE filterMissingDownloads_inverted(_, _)
filterMissingDownloads_inverted(outputDir, urls) ==
    IF urls = <<>> THEN <<>>
    ELSE (IF Base(Head(urls)) \in DOMAIN outputDir THEN <<Head(urls)>> ELSE <<>>)
         \o filterMissingDownloads_inverted(outputDir, Tail(urls))

RECURSIVE filterMissingDownloads(_, _)
filterMissingDownloads(outputDir, urls) ==
    IF urls = <<>> THEN <<>>
    ELSE (IF Base(Head(urls)) \notin DOMAIN outputDir THEN <<Head(urls)>> ELSE <<>>)
         \o filterMissingDownloads(outputDir, Tail(urls))

----------------------------------------------------------------------------
(* The archive and the initial states *)

Suffixes == 0..12

\* an archive answering 200 for the suffixes in hits and miss for the others
Responder(hits, miss) == [n \in Suffixes |-> IF n \in hits THEN "200" ELSE miss]

\* 404 for the even suffixes and a network error for the odd ones
Mixed(hits) == [n \in Suffixes |-> IF n \in hits THEN "200"
                                   ELSE IF n % 2 = 0 THEN "404" ELSE "err"]

\* the responders of the orchestrator's runs
Profiles == {Mixed({}), Responder({}, "err"), Mixed({3, 7})}

NoOffset(v, upm, pm) == IF v = "main.go" THEN ~upm /\ pm = 0 ELSE ~upm

\* main, lines 27-38 (part_000: lines 24-43): target period and candidate dates
TargetPeriod(v, upm, pm, m, y) ==
    IF v = "main.go" THEN adjustForPast(upm, pm, m, y) ELSE previousMonthOf(upm, m, y)

CandidateDays(v, upm, pm, m, y, td) ==
    LET t == TargetPeriod(v, upm, pm, m, y)
        all == findSundays(t.month, t.year)
    IN  IF NoOffset(v, upm, pm) THEN filterSundaysUntilToday(all, td) ELSE all

Range(f) == {f[i] : i \in DOMAIN f}

Idle ==
    /\ month = 0 /\ year = 0 /\ sundays = <<>> /\ formattedSundays = <<>>
    /\ idx = 0 /\ prober = <<>> /\ link = <<>> /\ probed = <<>>
    /\ wg = 0 /\ validURLs = <<>> /\ closed = FALSE
    /\ task = <<>> /\ body = <<>> /\ err = <<>>
    /\ errors = <<>> /\ errorsCap = 0
    /\ out = EmptyBag /\ calls = <<>> /\ created = {} /\ inventoried = {}

Init ==
    /\ variant \in {"main.go", "part_000"}
    /\ usePreviousMonth = FALSE /\ previousMonths = 0
    /\ curMonth = 3 /\ curYear = 2024
    /\ today \in {2 + 7 * k : k \in 0..MaxWeeks}
    /\ LET cands == Range(formatDays(CandidateDays(variant, usePreviousMonth,
                              previousMonths, curMonth, curYear, today)))
       IN  /\ resp \in [cands -> Profiles]
           /\ \E present \in SUBSET {Base(makeURLForDate(variant, d, 7)) : d \in cands} :
                  dir = [f \in present |-> "old"]
    /\ dir0 = dir
    /\ pc = "start"
    /\ prev = "none"
    /\ prevErr = {}
    /\ Idle

N == Len(formattedSundays)

----------------------------------------------------------------------------
(* Orchestrator *)

\* main, lines 24-39; part_000, lines 21-44
ResolveDates ==
    /\ pc = "start"
    /\ \E t \in {TargetPeriod(variant, usePreviousMonth, previousMonths, curMonth, curYear)} :
          month' = t.month /\ year' = t.year
    /\ sundays' = CandidateDays(variant, usePreviousMonth, previousMonths,
                                curMonth, curYear, today)
    /\ formattedSundays' = formatDays(sundays')
    /\ prober' = [i \in 1..Len(sundays') |-> "none"]
    /\ link' = [i \in 1..Len(sundays') |-> NoURL]
    /\ probed' = [i \in 1..Len(sundays') |-> <<>>]
    /\ task' = [i \in 1..Len(sundays') |-> "none"]
    /\ body' = [i \in 1..Len(sundays') |-> "none"]
    /\ err' = [i \in 1..Len(sundays') |-> "nil"]
    /\ calls' = [i \in 1..Len(sundays') |-> 0]
    /\ idx' = 1
    /\ pc' = "probe"
    /\ UNCHANGED <<variant, usePreviousMonth, previousMonths, curMonth, curYear, today,
                   resp, dir, dir0, wg, validURLs, closed, errors, errorsCap, out,
                   created, inventoried, prev, prevErr>>

\* main.go, lines 43-60: one goroutine per date; part_000, lines 45-51: the
\* dates are probed one after the other by main itself
ProbeLoop ==
    /\ pc = "probe"
    /\ IF idx <= N
       THEN /\ idx' = idx + 1
            /\ pc' = pc
            /\ IF variant = "main.go"
               THEN /\ wg' = wg + 1
                    /\ prober' = [prober EXCEPT ![idx] = "probe"]
                    /\ UNCHANGED <<link, probed, validURLs>>
               ELSE \E r \in {tryFindURLForDateMysteriosNumber(variant,
                                 resp[formattedSundays[idx]], formattedSundays[idx],
                                 StartNumber(variant))} :
                        /\ link' = [link EXCEPT ![idx] = r.link]
                        /\ probed' = [probed EXCEPT ![idx] = r.probes]
                        /\ validURLs' = IF r.link # NoURL THEN Append(validURLs, r.link)
                                        ELSE validURLs
                        /\ UNCHANGED <<wg, prober>>
       ELSE /\ pc' = IF variant = "main.go" THEN "wait1" ELSE "filter"
            /\ UNCHANGED <<idx, wg, prober, link, probed, validURLs>>
    /\ UNCHANGED <<variant, dateVars, resp, dir, dir0, closed, task, body, err, errors,
                   errorsCap, out, calls, created, inventoried, prev, prevErr>>

\* main.go, line 49: the goroutine of date i probes
GoProbe(i) ==
    /\ variant = "main.go"
    /\ prober[i] = "probe"
    /\ \E r \in {tryFindURLForDateMysteriosNumber(variant, resp[formattedSundays[i]],
                     formattedSundays[i], StartNumber(variant))} :
          /\ link' = [link EXCEPT ![i] = r.link]
          /\ probed' = [probed EXCEPT ![i] = r.probes]
    /\ prober' = [prober EXCEPT ![i] = "filter"]
    /\ UNCHANGED <<variant, pc, dateVars, resp, runVars>>

\* GoFilter where the goroutine starts the download of its own URL as soon as
\* it has found it missing, without waiting for the other dates
GoFilter_eager(i) ==
    /\ variant = "main.go"
    /\ prober[i] = "filter"
    /\ IF link[i] # NoURL
       THEN /\ inventoried' = inventoried \cup {i}
            /\ IF isDownloadMissing(dir, link[i])
               THEN /\ prober' = [prober EXCEPT ![i] = "done"] /\ wg' = wg
                    /\ task' = [task EXCEPT ![i] = "get"]
                    /\ calls' = [calls EXCEPT ![i] = @ + 1]
               ELSE /\ prober' = [prober EXCEPT ![i] = "done"] /\ wg' = wg - 1
                    /\ UNCHANGED <<task, calls>>
       ELSE /\ inventoried' = inventoried
            /\ prober' = [prober EXCEPT ![i] = "done"] /\ wg' = wg - 1
            /\ UNCHANGED <<task, calls>>
    /\ UNCHANGED <<variant, pc, dateVars, resp, link, probed, dir, dir0, idx, validURLs,
                   closed, body, err, errors, errorsCap, out, created, prev, prevErr>>

\* main.go, lines 55-58 up to the send: the goroutine of date i checks the
\* inventory; it goes on to send when the URL is missing and returns otherwise
GoFilter(i) ==
    /\ variant = "main.go"
    /\ prober[i] = "filter"
    /\ IF link[i] # NoURL
       THEN /\ inventoried' = inventoried \cup {i}
            /\ IF isDownloadMissing(dir, link[i])
               THEN prober' = [prober EXCEPT ![i] = "send"] /\ wg' = wg
               ELSE prober' = [prober EXCEPT ![i] = "done"] /\ wg' = wg - 1
       ELSE /\ inventoried' = inventoried
            /\ prober' = [prober EXCEPT ![i] = "done"] /\ wg' = wg - 1
    /\ UNCHANGED <<variant, pc, dateVars, resp, link, probed, dir, dir0, idx, validURLs,
                   closed, task, body, err, errors, errorsCap, out, calls, created, prev, prevErr>>

\* main.go, lines 61-62: wg.Wait() returns, close(validURLs)
WaitProbes ==
    /\ variant = "main.go"
    /\ pc = "wait1"
    /\ wg = 0
    /\ closed' = TRUE
    /\ pc' = "check"
    /\ UNCHANGED <<variant, dateVars, probeVars, dir, dir0, idx, wg, validURLs, task, body,
                   err, errors, errorsCap, out, calls, created, inventoried, prev, prevErr>>

\* part_000, line 55
FilterMissing ==
    /\ variant = "part_000"
    /\ pc = "filter"
    /\ validURLs' = filterMissingDownloads(dir, validURLs)
    /\ inventoried' = {i \in 1..N : link[i] # NoURL}
    /\ pc' = "check"
    /\ UNCHANGED <<variant, dateVars, probeVars, dir, dir0, idx, wg, closed, task, body,
                   err, errors, errorsCap, out, calls, created, prev, prevErr>>

NoMissing == <<"No missing podcasts">>

\* CheckEmpty with the test len(validURLs) <= 1
CheckEmpty_offByOne ==
    /\ pc = "check"
    /\ IF Len(validURLs) <= 1
       THEN /\ out' = out (+) SetToBag({NoMissing})
            /\ pc' = "done"
            /\ UNCHANGED <<idx, errorsCap>>
       ELSE /\ out' = out
            /\ pc' = IF variant = "main.go" THEN "range" ELSE "spawn"
            /\ idx' = 1
            /\ errorsCap' = IF variant = "main.go" THEN errorsCap ELSE Len(validURLs)
    /\ UNCHANGED <<variant, dateVars, probeVars, dir, dir0, wg, validURLs, closed, task,
                   body, err, errors, calls, created, inventoried, prev, prevErr>>

\* main.go, lines 64-67; part_000, lines 58-63.  len of a channel is the
\* number of elements in its buffer.
CheckEmpty ==
    /\ pc = "check"
    /\ IF Len(validURLs) = 0
       THEN /\ out' = out (+) SetToBag({NoMissing})
            /\ pc' = "done"
            /\ UNCHANGED <<idx, errorsCap>>
       ELSE /\ out' = out
            /\ pc' = IF variant = "main.go" THEN "range" ELSE "spawn"
            /\ idx' = 1
            /\ errorsCap' = IF variant = "main.go" THEN errorsCap ELSE Len(validURLs)
    /\ UNCHANGED <<variant, dateVars, probeVars, dir, dir0, wg, validURLs, closed, task,
                   body, err, errors, calls, created, inventoried, prev, prevErr>>

\* the date a discovered URL belongs to
DateOf(url) == CHOOSE i \in 1..N : link[i] = url

\* main.go, lines 70-79: range over validURLs, one goroutine per received link
\* (a receive takes the value of a goroutine blocked in its send; the loop ends
\* when the channel is closed and empty).  part_000, lines 64-66: one goroutine
\* per element of the slice.
DownloadLoop ==
    IF variant = "main.go"
    THEN /\ pc = "range"
         /\ IF ~closed /\ \E i \in 1..N : prober[i] = "send"
            THEN \E i \in 1..N :
                    /\ prober[i] = "send"
                    /\ prober' = [prober EXCEPT ![i] = "done"]
                    /\ task' = [task EXCEPT ![i] = "get"]
                    /\ calls' = [calls EXCEPT ![i] = @ + 1]
                    /\ wg' = wg + 1 - 1
                    /\ pc' = pc
            ELSE /\ closed
                 /\ pc' = "wait2"
                 /\ UNCHANGED <<prober, task, calls, wg>>
         /\ UNCHANGED <<variant, dateVars, resp, link, probed, dir, dir0, idx, validURLs,
                        closed, body, err, errors, errorsCap, out, created, inventoried,
                        prev, prevErr>>
    ELSE /\ pc = "spawn"
         /\ IF idx <= Len(validURLs)
            THEN /\ task' = [task EXCEPT ![DateOf(validURLs[idx])] = "get"]
                 /\ calls' = [calls EXCEPT ![DateOf(validURLs[idx])] = @ + 1]
                 /\ idx' = idx + 1
                 /\ pc' = pc
            ELSE /\ pc' = "collect"
                 /\ idx' = 0
                 /\ UNCHANGED <<task, calls>>
         /\ UNCHANGED <<variant, dateVars, probeVars, dir, dir0, wg, validURLs, closed,
                        body, err, errors, errorsCap, out, created, inventoried, prev, prevErr>>

----------------------------------------------------------------------------
(* Downloader: downloadFile, main.go lines 174-197, part_000 lines 142-170 *)

Downloading(url) == <<"Downloading", url>>
Failed(url, what) == <<"failed downloading", url, what>>

\* downloadFile creating the output file before it fetches
DlGet_createFirst(i) ==
    /\ task[i] = "get"
    /\ out' = out (+) SetToBag({Downloading(link[i])})
    /\ dir' = [f \in DOMAIN dir \cup {Base(link[i])} |->
                 IF f = Base(link[i]) THEN "empty" ELSE dir[f]]
    /\ created' = created \cup {Base(link[i])}
    /\ \E r \in {"err", "200", "404"} :
          IF r = "err"
          THEN /\ err' = [err EXCEPT ![i] = "get"]
               /\ task' = [task EXCEPT ![i] = "ret"]
               /\ body' = body
          ELSE /\ body' = [body EXCEPT ![i] = r]
               /\ task' = [task EXCEPT ![i] = "create"]
               /\ err' = err
    /\ UNCHANGED <<variant, pc, dateVars, probeVars, dir0, idx, wg, validURLs, closed,
                   errors, errorsCap, calls, inventoried, prev, prevErr>>

\* fmt.Printf("Downloading ..."), http.Get: a network error, or a response of
\* any status (http.Get reports no error for a non-2xx status)
DlGet(i) ==
    /\ task[i] = "get"
    /\ out' = out (+) SetToBag({Downloading(link[i])})
    /\ \E r \in {"err", "200", "404"} :
          IF r = "err"
          THEN /\ err' = [err EXCEPT ![i] = "get"]
               /\ task' = [task EXCEPT ![i] = "ret"]
               /\ body' = body
          ELSE /\ body' = [body EXCEPT ![i] = r]
               /\ task' = [task EXCEPT ![i] = "create"]
               /\ err' = err
    /\ UNCHANGED <<variant, pc, dateVars, probeVars, dir, dir0, idx, wg, validURLs, closed,
                   errors, errorsCap, calls, created, inventoried, prev, prevErr>>

\* os.Create(path.Join(outputDir, path.Base(url))): creates or truncates
DlCreate(i) ==
    /\ task[i] = "create"
    /\ \E ok \in BOOLEAN :
          IF ok
          THEN /\ dir' = [f \in DOMAIN dir \cup {Base(link[i])} |->
                            IF f = Base(link[i]) THEN "empty" ELSE dir[f]]
               /\ created' = created \cup {Base(link[i])}
               /\ task' = [task EXCEPT ![i] = "copy"]
               /\ err' = err
          ELSE /\ err' = [err EXCEPT ![i] = "create"]
               /\ task' = [task EXCEPT ![i] = "ret"]
               /\ UNCHANGED <<dir, created>>
    /\ UNCHANGED <<variant, pc, dateVars, probeVars, dir0, idx, wg, validURLs, closed,
                   body, errors, errorsCap, out, calls, inventoried, prev, prevErr>>

\* io.Copy(out, resp.Body): the whole body, or a part of it and an error
DlCopy(i) ==
    /\ task[i] = "copy"
    /\ \E ok \in BOOLEAN :
          IF ok
          THEN /\ dir' = [dir EXCEPT ![Base(link[i])] =
                              IF body[i] = "200" THEN "full" ELSE "errorpage"]
               /\ err' = err
          ELSE /\ dir' = [dir EXCEPT ![Base(link[i])] = "partial"]
               /\ err' = [err EXCEPT ![i] = "copy"]
    /\ task' = [task EXCEPT ![i] = "ret"]
    /\ UNCHANGED <<variant, pc, dateVars, probeVars, dir0, idx, wg, validURLs, closed,
                   body, errors, errorsCap, out, calls, created, inventoried, prev, prevErr>>

\* downloadFile sending on the channel only when it has an error
DlReturn_onlyErrors(i) ==
    /\ task[i] = "ret"
    /\ task' = [task EXCEPT ![i] = "done"]
    /\ IF variant = "main.go"
       THEN /\ out' = IF err[i] # "nil" THEN out (+) SetToBag({Failed(link[i], err[i])})
                      ELSE out
            /\ wg' = wg - 1
            /\ errors' = errors
       ELSE /\ Len(errors) < errorsCap
            /\ errors' = IF err[i] # "nil"
                         THEN Append(errors, [url |-> link[i], err |-> err[i]])
                         ELSE errors
            /\ UNCHANGED <<out, wg>>
    /\ UNCHANGED <<variant, pc, dateVars, probeVars, dir, dir0, idx, validURLs, closed,
                   body, err, errorsCap, calls, created, inventoried, prev, prevErr>>

\* main.go, lines 73-77: the error is printed by the goroutine, wg.Done();
\* part_000: the error (or nil) is sent on the channel errors
DlReturn(i) ==
    /\ task[i] = "ret"
    /\ task' = [task EXCEPT ![i] = "done"]
    /\ IF variant = "main.go"
       THEN /\ out' = IF err[i] # "nil" THEN out (+) SetToBag({Failed(link[i], err[i])})
                      ELSE out
            /\ wg' = wg - 1
            /\ errors' = errors
       ELSE /\ Len(errors) < errorsCap
            /\ errors' = Append(errors, [url |-> link[i], err |-> err[i]])
            /\ UNCHANGED <<out, wg>>
    /\ UNCHANGED <<variant, pc, dateVars, probeVars, dir, dir0, idx, validURLs, closed,
                   body, err, errorsCap, calls, created, inventoried, prev, prevErr>>

\* JoinDownloads receiving one value fewer than there are tasks
JoinDownloads_short ==
    /\ IF variant = "main.go"
       THEN /\ pc = "wait2"
            /\ wg = 0
            /\ pc' = "done"
            /\ UNCHANGED <<idx, errors, out>>
       ELSE /\ pc = "collect"
            /\ IF idx < Len(validURLs) - 1
               THEN /\ errors # <<>>
                    /\ errors' = Tail(errors)
                    /\ out' = IF Head(errors).err # "nil"
                              THEN out (+) SetToBag({Failed(Head(errors).url, Head(errors).err)})
                              ELSE out
                    /\ idx' = idx + 1
                    /\ pc' = pc
               ELSE /\ pc' = "done"
                    /\ UNCHANGED <<idx, errors, out>>
    /\ UNCHANGED <<variant, dateVars, probeVars, dir, dir0, wg, validURLs, closed, task,
                   body, err, errorsCap, calls, created, inventoried, prev, prevErr>>

\* JoinDownloads where main returns at the first error it receives
JoinDownloads_abort ==
    /\ IF variant = "main.go"
       THEN /\ pc = "wait2"
            /\ wg = 0
            /\ pc' = "done"
            /\ UNCHANGED <<idx, errors, out>>
       ELSE /\ pc = "collect"
            /\ IF idx < Len(validURLs)
               THEN /\ errors # <<>>
                    /\ errors' = Tail(errors)
                    /\ out' = IF Head(errors).err # "nil"
                              THEN out (+) SetToBag({Failed(Head(errors).url, Head(errors).err)})
                              ELSE out
                    /\ idx' = idx + 1
                    /\ pc' = IF Head(errors).err # "nil" THEN "done" ELSE pc
               ELSE /\ pc' = "done"
                    /\ UNCHANGED <<idx, errors, out>>
    /\ UNCHANGED <<variant, dateVars, probeVars, dir, dir0, wg, validURLs, closed, task,
                   body, err, errorsCap, calls, created, inventoried, prev, prevErr>>

\* main.go, line 80: wg.Wait() returns; part_000, lines 68-73: one receive
\* per element of the slice, a non-nil error is printed
JoinDownloads ==
    /\ IF variant = "main.go"
       THEN /\ pc = "wait2"
            /\ wg = 0
            /\ pc' = "done"
            /\ UNCHANGED <<idx, errors, out>>
       ELSE /\ pc = "collect"
            /\ IF idx < Len(validURLs)
               THEN /\ errors # <<>>
                    /\ errors' = Tail(errors)
                    /\ out' = IF Head(errors).err # "nil"
                              THEN out (+) SetToBag({Failed(Head(errors).url, Head(errors).err)})
                              ELSE out
                    /\ idx' = idx + 1
                    /\ pc' = pc
               ELSE /\ pc' = "done"
                    /\ UNCHANGED <<idx, errors, out>>
    /\ UNCHANGED <<variant, dateVars, probeVars, dir, dir0, wg, validURLs, closed, task,
                   body, err, errorsCap, calls, created, inventoried, prev, prevErr>>

----------------------------------------------------------------------------
(* The Go runtime and the operator *)

\* main is blocked in wg.Wait() and every goroutine left is blocked in its send
AllAsleep ==
    /\ pc = "wait1"
    /\ wg > 0
    /\ \A i \in 1..N : prober[i] \in {"send", "done"}

\* "fatal error: all goroutines are asleep - deadlock!", exit status 2; when
\* the runtime does not detect it (idle HTTP connections) the process hangs,
\* which is the behaviour that stutters in the state AllAsleep
RuntimeDeadlock ==
    /\ AllAsleep
    /\ pc' = "fatal"
    /\ UNCHANGED <<variant, dateVars, probeVars, runVars>>

\* the program is run again on the same day against the same archive
Rerun ==
    /\ pc \in {"done", "fatal"}
    /\ prev' = IF pc = "fatal" THEN "fatal"
               ELSE IF \E i \in 1..N : err[i] # "nil" THEN "failed"
               ELSE IF \E i \in 1..N : calls[i] > 0 THEN "downloaded"
               ELSE "nothing"
    /\ prevErr' = {link[i] : i \in {j \in 1..N : err[j] = "get"}}
    /\ dir0' = dir
    /\ pc' = "start"
    /\ month' = 0 /\ year' = 0 /\ sundays' = <<>> /\ formattedSundays' = <<>>
    /\ idx' = 0 /\ prober' = <<>> /\ link' = <<>> /\ probed' = <<>>
    /\ wg' = 0 /\ validURLs' = <<>> /\ closed' = FALSE
    /\ task' = <<>> /\ body' = <<>> /\ err' = <<>>
    /\ errors' = <<>> /\ errorsCap' = 0
    /\ out' = EmptyBag /\ calls' = <<>> /\ created' = {} /\ inventoried' = {}
    /\ UNCHANGED <<variant, usePreviousMonth, previousMonths, curMonth, curYear, today,
                   resp, dir>>

Next ==
    \/ ResolveDates
    \/ ProbeLoop
    \/ \E i \in 1..N : GoProbe(i)
    \/ \E i \in 1..N : GoFilter(i)
    \/ WaitProbes
    \/ FilterMissing
    \/ CheckEmpty
    \/ DownloadLoop
    \/ \E i \in 1..N : DlGet(i)
    \/ \E i \in 1..N : DlCreate(i)
    \/ \E i \in 1..N : DlCopy(i)
    \/ \E i \in 1..N : DlReturn(i)
    \/ JoinDownloads
    \/ RuntimeDeadlock
    \/ Rerun

Spec == Init /\ [][Next]_vars

\* a step of some downloadFile task
Download == \E i \in 1..N : DlGet(i) \/ DlCreate(i) \/ DlCopy(i) \/ DlReturn(i)

----------------------------------------------------------------------------
(* The Date Calculator over every month of the years FirstYear..LastYear *)

InitDate ==
    /\ variant \in {"main.go", "part_000"}
    /\ usePreviousMonth \in BOOLEAN
    /\ previousMonths \in IF variant = "main.go" THEN 0..MaxBack ELSE {0}
    /\ curMonth \in 1..12
    /\ curYear \in FirstYear..LastYear
    /\ today \in 1..DaysIn(curMonth, curYear)
    /\ resp = <<>> /\ dir = <<>> /\ dir0 = <<>>
    /\ pc = "start"
    /\ prev = "none"
    /\ prevErr = {}
    /\ Idle

NextDate == ResolveDates

SpecDate == InitDate /\ [][NextDate]_vars

----------------------------------------------------------------------------
(* The URL Prober of one date against every archive *)

InitProbe ==
    /\ variant \in {"main.go", "part_000"}
    /\ usePreviousMonth = FALSE /\ previousMonths = 0
    /\ curMonth = 3 /\ curYear = 2024
    /\ today = 9
    /\ \E hits \in SUBSET Suffixes :
          resp \in [{"20240303"} -> {Responder(hits, "404"), Responder(hits, "err"),
                                     Mixed(hits)}]
    /\ dir = <<>> /\ dir0 = <<>>
    /\ pc = "start"
    /\ prev = "none"
    /\ prevErr = {}
    /\ Idle

NextProbe ==
    \/ ResolveDates
    \/ ProbeLoop
    \/ \E i \in 1..N : GoProbe(i)

SpecProbe == InitProbe /\ [][NextProbe]_vars

----------------------------------------------------------------------------
(* Properties *)

Discovered == {i \in 1..N : link[i] # NoURL}

\* the discovered URLs whose basename was not in the output directory when
\* the run started
MissingDates == {i \in Discovered : Base(link[i]) \notin DOMAIN dir0}

\* the probe of every candidate date has returned
AllProbed == pc \notin {"start", "probe"} /\ \A i \in 1..N : probed[i] # <<>>

Exited == pc \in {"done", "fatal"}

\* C1: every run of main.go terminates with a successful exit: main is never
\* left blocked in wg.Wait() with every remaining goroutine blocked in its send
\* on validURLs, and the process never dies of the runtime's deadlock error.
C1_MainTerminates ==
    variant = "main.go" => ~AllAsleep /\ pc # "fatal"

\* C2: when the process exits, downloadFile has been invoked exactly once for
\* every discovered URL whose basename was missing from the output directory.
C2_MissingDownloadedOnce ==
    Exited => \A i \in MissingDates : calls[i] = 1

C4_PresentFilesUntouched ==
    /\ \A f \in DOMAIN dir0 : f \notin created /\ f \in DOMAIN dir /\ dir[f] = dir0[f]
    /\ \A i \in Discovered : Base(link[i]) \in DOMAIN dir0 => calls[i] = 0

C4_Witness ==
    /\ pc = "done"
    /\ \E i \in Discovered : Base(link[i]) \in DOMAIN dir0
    /\ \E j \in Discovered :
          calls[j] = 1 /\ Base(link[j]) \in DOMAIN dir /\ dir[Base(link[j])] = "full"

\* C5: "No missing podcasts" is printed only by a run that has probed every
\* date, found no discovered URL missing and ends without any download; a run
\* that ends with nothing missing has printed it exactly once; a run in which
\* a discovered URL is missing never prints it.
C5_NoMissingMessage ==
    /\ BagIn(NoMissing, out) =>
          /\ pc = "done" /\ AllProbed /\ MissingDates = {}
          /\ \A i \in 1..N : calls[i] = 0
    /\ pc = "done" /\ MissingDates = {} => CopiesIn(NoMissing, out) = 1
    /\ Exited /\ MissingDates # {} => ~BagIn(NoMissing, out)

C5_Witness ==
    /\ pc = "done"
    /\ BagIn(NoMissing, out)
    /\ Discovered # {}

\* C6: a failed download does not stop the others.  When main returns, every
\* download started in the run has finished, each one that did not fail itself
\* has written its file, and the error of each one that failed has been printed
\* once.  A run that has started downloads never dies of a deadlock, and until
\* main returns main or one of the download tasks can always take its next
\* step, whatever has failed (each step moves a task or main forward, so the
\* run reaches the return of main).
C6_FailureIsolation ==
    /\ (\E i \in 1..N : calls[i] > 0) =>
          /\ pc # "fatal" /\ ~AllAsleep
          /\ pc # "done" => ENABLED (DownloadLoop \/ Download \/ JoinDownloads)
    /\ pc = "done" =>
          \A i \in 1..N : calls[i] > 0 =>
             /\ task[i] = "done"
             /\ err[i] = "nil" =>
                   /\ Base(link[i]) \in DOMAIN dir
                   /\ dir[Base(link[i])] \in {"full", "errorpage"}
             /\ err[i] # "nil" => CopiesIn(Failed(link[i], err[i]), out) = 1

C6_Witness ==
    /\ pc = "done"
    /\ \E i, j \in 1..N :
          /\ err[i] # "nil" /\ BagIn(Failed(link[i], err[i]), out)
          /\ calls[j] = 1 /\ err[j] = "nil"
          /\ Base(link[j]) \in DOMAIN dir /\ dir[Base(link[j])] = "full"

\* C7: a run that follows a run which ended normally with every download
\* succeeding, against the same archive, starts no download.
C7_SecondRunDownloadsNothing ==
    prev \in {"downloaded", "nothing"} => \A i \in 1..N : calls[i] = 0

C7_Witness ==
    /\ prev = "downloaded"
    /\ pc = "done"
    /\ Discovered # {}
    /\ \A i \in 1..N : calls[i] = 0

Hits(i) == {n \in Suffixes : resp[formattedSundays[i]][n] = "200"}

Max(S) == CHOOSE m \in S : \A n \in S : n <= m

\* <<from, from - 1, ..., to>>
Down(from, to) == [j \in 1..(from - to + 1) |-> from - j + 1]

\* C8: the probe of a date from 12 tries the suffixes 12, 11, ... in descending
\* order and stops at the first that answers 200: it returns the URL of the
\* highest answering suffix, having probed exactly 12 down to that suffix, and
\* returns "" after probing 12 down to 0 when none answers.
C8_HighestSuffixFirst ==
    variant = "main.go" =>
       \A i \in 1..N : probed[i] # <<>> =>
          IF Hits(i) = {}
          THEN link[i] = NoURL /\ probed[i] = Down(12, 0)
          ELSE /\ link[i] = makeURLForDate("main.go", formattedSundays[i], Max(Hits(i)))
               /\ probed[i] = Down(12, Max(Hits(i)))

C8_Witness ==
    /\ variant = "main.go"
    /\ \E i \in 1..N :
          /\ Hits(i) = {7}
          /\ probed[i] = <<12, 11, 10, 9, 8, 7>>
          /\ link[i] # NoURL
          /\ Base(link[i]) = "20240303055007-33-1962-pacific-notions.mp3"

\* C9: without an offset flag the target period is the current month and
\* year; with an offset (1 for --previous-month, else the value of -p) it is
\* December of the previous year when the current month minus the offset is
\* <= 0 and the reduced month of the same year otherwise; the month is in 1..12.
C9_AdjustForPast ==
    pc = "probe" =>
       /\ month \in 1..12
       /\ IF ~usePreviousMonth /\ previousMonths = 0
          THEN month = curMonth /\ year = curYear
          ELSE LET offset == IF usePreviousMonth THEN 1 ELSE previousMonths
               IN  IF curMonth - offset <= 0
                   THEN month = 12 /\ year = curYear - 1
                   ELSE month = curMonth - offset /\ year = curYear

C9_Witness ==
    /\ pc = "probe"
    /\ usePreviousMonth
    /\ curMonth = 1
    /\ month = 12 /\ year = curYear - 1

\* C10: -p N with N >= the current month yields the calendar month exactly N
\* months before the current one (month arithmetic modulo 12, the year
\* adjusted).
C10_RollbackExact ==
    (pc = "probe" /\ variant = "main.go" /\ ~usePreviousMonth
        /\ previousMonths >= curMonth) =>
       LET total == 12 * curYear + (curMonth - 1) - previousMonths
       IN  month = (total % 12) + 1 /\ year = total \div 12

\* the day of the week by Zeller's congruence: 1 is Sunday
Zeller(y, m, d) ==
    LET mm == IF m < 3 THEN m + 12 ELSE m
        yy == IF m < 3 THEN y - 1 ELSE y
        K == yy % 100
        J == yy \div 100
    IN  (d + ((13 * (mm + 1)) \div 5) + K + (K \div 4) + (J \div 4) + 5 * J) % 7

\* the days of month m of year y that are Sundays and not after day limit
SundaysUpTo(m, y, limit) ==
    {d \in 1..DaysIn(m, y) : Zeller(y, m, d) = 1 /\ d <= limit}

\* ss lists, in strictly ascending order, exactly the days in days of month m
\* of year y
ListsDays(ss, m, y, days) ==
    /\ \A k \in 1..Len(ss) : ss[k].year = y /\ ss[k].month = m
    /\ {ss[k].day : k \in 1..Len(ss)} = days
    /\ \A k \in 1..(Len(ss) - 1) : ss[k].day < ss[k + 1].day

\* the whole month is eligible: an offset is set, or today is its last day
WholeMonth ==
    \/ usePreviousMonth \/ previousMonths # 0
    \/ today = DaysIn(curMonth, curYear)

\* C11: findSundays returns exactly the Sundays of the month: each returned
\* date is a Sunday of the target month, every Sunday of the month between its
\* first and last day is returned, and the dates are strictly ascending.
C11_ExactlyTheSundays ==
    (pc = "probe" /\ WholeMonth) =>
       /\ ListsDays(sundays, month, year, SundaysUpTo(month, year, DaysIn(month, year)))
       /\ Len(sundays) \in {4, 5}

C11_Witness ==
    /\ pc = "probe"
    /\ usePreviousMonth
    /\ month = 3 /\ year = 2024
    /\ Len(sundays) = 5
    /\ [k \in 1..5 |-> sundays[k].day] = <<3, 10, 17, 24, 31>>

\* C12: without an offset flag the candidate dates are exactly the Sundays of
\* the current month whose day is <= today's day; with --previous-month or a
\* non-zero -p they are all the Sundays of the target month, whatever today is.
C12_TrimOnlyWithoutOffset ==
    pc = "probe" =>
       IF ~usePreviousMonth /\ previousMonths = 0
       THEN ListsDays(sundays, curMonth, curYear, SundaysUpTo(curMonth, curYear, today))
       ELSE ListsDays(sundays, month, year, SundaysUpTo(month, year, 31))

C12_Witness ==
    /\ pc = "probe"
    /\ ~usePreviousMonth /\ previousMonths = 0
    /\ curMonth = 3 /\ curYear = 2024 /\ today = 17
    /\ Len(sundays) = 3
    /\ [k \in 1..3 |-> sundays[k].day] = <<3, 10, 17>>

\* C13 (as stated): a finished downloadFile has returned an error for a
\* network failure, for a response with a non-success status, for a failed
\* os.Create and for a failed write, and in the first two cases it has not
\* created the file.
C13_FailuresReported ==
    \A i \in 1..N : task[i] \in {"ret", "done"} =>
       /\ body[i] = "404" => err[i] # "nil" /\ Base(link[i]) \notin created
       /\ err[i] = "get" => Base(link[i]) \notin created

\* C14: the process exits only when every downloadFile it started has finished
\* and the error of each failed one has been printed.
C14_NoExitDuringDownload ==
    Exited =>
       /\ errors = <<>>
       /\ \A i \in 1..N :
             /\ task[i] \in {"none", "done"}
             /\ calls[i] > 0 => task[i] = "done"
             /\ err[i] # "nil" => BagIn(Failed(link[i], err[i]), out)

C14_Witness ==
    /\ pc = "done"
    /\ \E i, j \in 1..N :
          i # j /\ calls[i] = 1 /\ calls[j] = 1 /\ err[i] = "copy"

\* the suffixes a probe of the running revision tries
Tried == 0..StartNumber(variant)

\* the URL of the highest answering suffix of date i, "" when none answers
ExpectedLink(i) ==
    IF Hits(i) \cap Tried = {} THEN NoURL
    ELSE makeURLForDate(variant, formattedSundays[i], Max(Hits(i) \cap Tried))

\* C15: a date none of whose suffixes answers 200 (404 or network error) has
\* been probed once per suffix (13 probes from 12), yields "" and never a
\* download or an inventory check; the results of the other dates are what
\* their own answers give; a run where every date misses is never deadlocked.
C15_ProbeMissIsNotAnError ==
    /\ \A i \in 1..N : (probed[i] # <<>> /\ Hits(i) \cap Tried = {}) =>
          /\ Len(probed[i]) = StartNumber(variant) + 1
          /\ variant = "main.go" => Len(probed[i]) = 13
          /\ link[i] = NoURL
          /\ calls[i] = 0 /\ task[i] = "none" /\ i \notin inventoried
          /\ \A j \in 1..N : probed[j] # <<>> => link[j] = ExpectedLink(j)
    /\ (\A i \in 1..N : Hits(i) \cap Tried = {}) => pc # "fatal" /\ ~AllAsleep

C15_Witness ==
    /\ variant = "main.go"
    /\ pc = "done"
    /\ \E i, j \in 1..N :
          /\ resp[formattedSundays[i]] = Responder({}, "err")
          /\ Len(probed[i]) = 13 /\ link[i] = NoURL
          /\ link[j] # NoURL

\* C16: downloadFile is invoked at most once per candidate date, the URLs of
\* distinct dates have distinct basenames and no basename occurs twice among
\* the URLs to download, so no two download tasks write the same path.
C16_DistinctPaths ==
    /\ \A i \in 1..N : calls[i] <= 1
    /\ \A i, j \in Discovered : i # j => Base(link[i]) # Base(link[j])
    /\ \A a, b \in 1..Len(validURLs) :
          a # b => Base(validURLs[a]) # Base(validURLs[b])

C16_Witness ==
    \E i, j \in 1..N :
       /\ i # j
       /\ task[i] = "copy" /\ task[j] = "copy"
       /\ Base(link[i]) # Base(link[j])

\* C17: a discovered URL whose file is in the directory as a partial file (a
\* write that failed in an earlier run) is never downloaded and its file stays
\* as it is; a URL whose http.Get failed in the previous run left no file, and
\* the next run that returns has invoked downloadFile for it once.
C17_ExistenceOnly ==
    /\ \A i \in Discovered :
          (Base(link[i]) \in DOMAIN dir0 /\ dir0[Base(link[i])] = "partial") =>
             /\ calls[i] = 0
             /\ Base(link[i]) \in DOMAIN dir /\ dir[Base(link[i])] = "partial"
    /\ \A u \in prevErr : Base(u) \notin DOMAIN dir0
    /\ pc = "done" => \A i \in Discovered : link[i] \in prevErr => calls[i] = 1

C17_Witness ==
    /\ pc = "done"
    /\ \E i, j \in Discovered :
          /\ Base(link[i]) \in DOMAIN dir0 /\ dir0[Base(link[i])] = "partial"
          /\ calls[i] = 0
          /\ link[j] \in prevErr /\ calls[j] = 1

Started == {i \in 1..N : calls[i] > 0}
Finished == {i \in 1..N : task[i] = "done"}

\* C18: in part_000 the channel errors has the capacity of the number of
\* tasks; a task that is about to send always finds room; the tasks that have
\* finished are exactly as many as the values in the channel plus those main
\* has received; main can always receive or a task can still step, and main
\* returns after one receive per task with the channel empty.
C18_OneSendPerTask ==
    variant = "part_000" =>
       /\ Len(errors) <= errorsCap
       /\ pc \in {"spawn", "collect"} => errorsCap = Len(validURLs)
       /\ \A i \in 1..N : task[i] = "ret" => Len(errors) < errorsCap
       /\ pc = "spawn" => Cardinality(Finished) = Len(errors)
       /\ pc = "collect" =>
             /\ Cardinality(Started) = Len(validURLs)
             /\ Cardinality(Finished) = Len(errors) + idx
             /\ ENABLED (JoinDownloads \/ Download)
       /\ (pc = "done" /\ Started # {}) =>
             /\ errors = <<>>
             /\ idx = Cardinality(Started)
             /\ Finished = Started

C18_Witness ==
    /\ variant = "part_000"
    /\ pc = "done"
    /\ \E i, j \in 1..N :
          /\ calls[i] = 1 /\ err[i] = "create"
          /\ calls[j] = 1 /\ err[j] = "nil"

====
